---- MODULE Spec2Model ----
(***************************************************************************)
(* Model of kirvano_webhook_server_seguro.py: the POST /webhook/kirvano    *)
(* endpoint (token validation, identity extraction, event dispatch, admin  *)
(* notification, top-level exception handler).                             *)
(*                                                                         *)
(* JSON values are tagged records.  Strings that the code inspects         *)
(* character by character (phone_number, metadata ids) are sequences of    *)
(* characters; strings the code only compares (tokens, event names,        *)
(* sale ids) are TLA+ strings.                                             *)
(***************************************************************************)
EXTENDS Integers, Sequences, FiniteSets

VARIABLES
    cfg,        \* KIRVANO_TOKEN, BOT_TOKEN, ADMIN_CHAT_ID (read once at import)
    req,        \* the HTTP request the provider delivers (body and header)
    pc,         \* position of the handler coroutine
    validated,  \* outcome of the token check of the current delivery
    result,     \* what extract_user_id_from_kirvano_data returned / raised
    exc,        \* the exception being handled by the top-level except
    handlers,   \* event handlers invoked by the current delivery, in order
    pending,    \* messages whose notificar_admin call is in progress
    after,      \* where the coroutine resumes when notificar_admin returns
    alerts,     \* messages passed to notificar_admin by the current delivery
    posts,      \* outbound POSTs made by the current delivery, with outcome
    resp,       \* the response of the current delivery
    responses,  \* responses returned so far, one per delivery
    outcomes    \* per delivery, the outcomes of its outbound POSTs

vars == <<cfg, req, pc, validated, result, exc, handlers, pending, after,
          alerts, posts, resp, responses, outcomes>>

\* How many times the provider delivers the same request.
MaxDeliveries == 2

----------------------------------------------------------------------------
(* Values *)

\* A key that is missing (dict.get gives None, or the given default).
TAbsent == [k |-> "absent", t |-> ""]
\* JSON null.
TNull == [k |-> "null", t |-> ""]
TStr(t) == [k |-> "str", t |-> t]

\* Python truthiness of None / str.
TTruthy(v) == v.k = "str" /\ v.t # ""

\* a or b
TOr(a, b) == IF TTruthy(a) THEN a ELSE b

\* Values whose characters matter.
VAbsent == [k |-> "absent", s |-> <<>>, n |-> 0]
VNull == [k |-> "null", s |-> <<>>, n |-> 0]
VStr(cs) == [k |-> "str", s |-> cs, n |-> 0]
VInt(i) == [k |-> "int", s |-> <<>>, n |-> i]

\* Python truthiness of None / str / int.
VTruthy(v) ==
    \/ v.k = "str" /\ v.s # <<>>
    \/ v.k = "int" /\ v.n # 0

VOr(a, b) == IF VTruthy(a) THEN a ELSE b

DecimalDigits == {"0", "1", "2", "3", "4", "5", "6", "7", "8", "9"}

\* str.isdigit() is also true of digits that are not decimal, such as
\* SUPERSCRIPT TWO, which int() refuses.
OtherDigits == {"SUPERSCRIPT_TWO"}

DigitValue(c) ==
    CASE c = "0" -> 0 [] c = "1" -> 1 [] c = "2" -> 2 [] c = "3" -> 3
      [] c = "4" -> 4 [] c = "5" -> 5 [] c = "6" -> 6 [] c = "7" -> 7
      [] c = "8" -> 8 [] c = "9" -> 9

\* str.isdigit(): non-empty and every character a digit.
isdigit(cs) ==
    /\ cs # <<>>
    /\ \A i \in 1..Len(cs) : cs[i] \in DecimalDigits \cup OtherDigits

\* Whether int(str) succeeds (over the characters of the model).
IntParses(cs) ==
    /\ cs # <<>>
    /\ \A i \in 1..Len(cs) : cs[i] \in DecimalDigits

RECURSIVE IntOfDigits(_)
IntOfDigits(cs) ==
    IF cs = <<>> THEN 0
    ELSE 10 * IntOfDigits(SubSeq(cs, 1, Len(cs) - 1)) + DigitValue(cs[Len(cs)])

----------------------------------------------------------------------------
(* Exceptions and results *)

NoExc == [type |-> "none", text |-> ""]
JSONDecodeError == [type |-> "JSONDecodeError", text |-> "Expecting value"]
AttributeError == [type |-> "AttributeError", text |-> "object has no attribute"]
ValueError == [type |-> "ValueError", text |-> "invalid literal for int()"]
HTTPException401 == [type |-> "HTTPException", text |-> "401: Token invalido"]

Returned(i) == [k |-> "id", n |-> i, exc |-> NoExc]
ReturnedNone == [k |-> "none", n |-> 0, exc |-> NoExc]
Raised(e) == [k |-> "raise", n |-> 0, exc |-> e]
NotRun == [k |-> "notrun", n |-> 0, exc |-> NoExc]

\* int(v) of a truthy value.
int(v) ==
    IF v.k = "int" THEN Returned(v.n)
    ELSE IF IntParses(v.s) THEN Returned(IntOfDigits(v.s))
    ELSE Raised(ValueError)

----------------------------------------------------------------------------
(* Configuration *)

\* os.getenv gives None for an unset variable; a variable may be set empty.
Configurations ==
    [KIRVANO_TOKEN : {TAbsent, TStr(""), TStr("s3cret")},
     BOT_TOKEN : {TAbsent, TStr("bot")},
     ADMIN_CHAT_ID : {TAbsent, TStr("chat")}]

KIRVANO_TOKEN == cfg.KIRVANO_TOKEN
BOT_TOKEN == cfg.BOT_TOKEN
ADMIN_CHAT_ID == cfg.ADMIN_CHAT_ID

----------------------------------------------------------------------------
(* Token validation *)

\* validar_token: accept everything when no secret is configured, else
\* compare for equality.
validar_token(request_token) ==
    IF ~TTruthy(KIRVANO_TOKEN) THEN TRUE
    ELSE request_token = KIRVANO_TOKEN

\* token = data.get('token') or request.headers.get('X-Kirvano-Token')
SuppliedToken(r) == TOr(r.token, r.header)

\* Mutation of MustValidate: a configured secret always demands a token.
MustValidate_TokenRequired(token) == TTruthy(KIRVANO_TOKEN)

\* if KIRVANO_TOKEN and token:
MustValidate(token) == TTruthy(KIRVANO_TOKEN) /\ TTruthy(token)

\* The token check raises HTTPException(401).
TokenRejected(r) ==
    /\ MustValidate(SuppliedToken(r))
    /\ ~validar_token(SuppliedToken(r))

----------------------------------------------------------------------------
(* Identity extraction *)

Fallthrough == [k |-> "fallthrough", n |-> 0, exc |-> NoExc]

\* customer = data.get('customer', {}); phone = customer.get('phone_number', '')
\* if phone.isdigit(): try: return int(phone) except: pass
PhoneLookup(data) ==
    IF data.customer.k = "null" THEN Raised(AttributeError)
    ELSE LET phone == IF data.customer.k = "absent"
                         \/ data.customer.phone_number.k = "absent"
                      THEN VStr(<<>>)
                      ELSE data.customer.phone_number
         IN  IF phone.k # "str" THEN Raised(AttributeError)
             ELSE IF isdigit(phone.s) /\ IntParses(phone.s)
                  THEN Returned(IntOfDigits(phone.s))
                  ELSE Fallthrough

\* dict.get(key): None when the key is missing.
Get(v) == IF v.k = "absent" THEN VNull ELSE v

\* Mutation of MetadataLookup: user_id is preferred to telegram_user_id.
MetadataLookup_Swapped(data) ==
    IF data.metadata.k = "null" THEN Raised(AttributeError)
    ELSE LET telegram_user_id == IF data.metadata.k = "absent" THEN VNull
                                 ELSE Get(data.metadata.telegram_user_id)
             other == IF data.metadata.k = "absent" THEN VNull
                      ELSE Get(data.metadata.user_id)
             user_id == VOr(other, telegram_user_id)
         IN  IF VTruthy(user_id) THEN int(user_id) ELSE ReturnedNone

\* Mutation of MetadataLookup: a value that does not coerce is skipped.
MetadataLookup_Lenient(data) ==
    IF data.metadata.k = "null" THEN Raised(AttributeError)
    ELSE LET telegram_user_id == IF data.metadata.k = "absent" THEN VNull
                                 ELSE Get(data.metadata.telegram_user_id)
             other == IF data.metadata.k = "absent" THEN VNull
                      ELSE Get(data.metadata.user_id)
             user_id == VOr(telegram_user_id, other)
         IN  IF VTruthy(user_id) /\ int(user_id).k = "id" THEN int(user_id)
             ELSE ReturnedNone

\* metadata = data.get('metadata', {})
\* user_id = metadata.get('telegram_user_id') or metadata.get('user_id')
\* if user_id: return int(user_id)
\* return None
MetadataLookup(data) ==
    IF data.metadata.k = "null" THEN Raised(AttributeError)
    ELSE LET telegram_user_id == IF data.metadata.k = "absent" THEN VNull
                                 ELSE Get(data.metadata.telegram_user_id)
             other == IF data.metadata.k = "absent" THEN VNull
                      ELSE Get(data.metadata.user_id)
             user_id == VOr(telegram_user_id, other)
         IN  IF VTruthy(user_id) THEN int(user_id) ELSE ReturnedNone

extract_user_id_from_kirvano_data(data) ==
    LET byPhone == PhoneLookup(data)
    IN  IF byPhone.k = "fallthrough" THEN MetadataLookup(data) ELSE byPhone

\* if not user_id_telegram:
UserIdMissing(r) == r.k = "none" \/ (r.k = "id" /\ r.n = 0)

----------------------------------------------------------------------------
(* Requests *)

RecognizedEvents ==
    {"SALE_APPROVED", "SUBSCRIPTION_CREATED", "SUBSCRIPTION_RENEWED",
     "SUBSCRIPTION_CANCELED", "REFUND_REQUESTED"}

Events ==
    {TAbsent, TNull, TStr("FOO_BAR"), TStr("sale_approved")}
        \cup {TStr(e) : e \in RecognizedEvents}

NoCustomer == [k |-> "absent", phone_number |-> VAbsent]
NullCustomer == [k |-> "null", phone_number |-> VAbsent]
Customer(phone) == [k |-> "obj", phone_number |-> phone]

NoMetadata == [k |-> "absent", telegram_user_id |-> VAbsent, user_id |-> VAbsent]
NullMetadata == [k |-> "null", telegram_user_id |-> VAbsent, user_id |-> VAbsent]
Metadata(t, u) == [k |-> "obj", telegram_user_id |-> t, user_id |-> u]

\* Phone numbers: missing, null, a JSON number, and strings that are empty,
\* decimal, zero, not numeric, and digits that int() refuses.
Phones ==
    {VAbsent, VNull, VInt(12345), VStr(<<>>),
     VStr(<<"1", "2", "3", "4", "5">>), VStr(<<"0">>),
     VStr(<<"1", "a">>), VStr(<<"SUPERSCRIPT_TWO">>)}

MetadataIds ==
    {VAbsent, VNull, VInt(0), VInt(999), VStr(<<>>), VStr(<<"4", "2">>),
     VStr(<<"a", "b", "c">>)}

AllCustomers == {NoCustomer, NullCustomer} \cup {Customer(p) : p \in Phones}

AllMetadata ==
    {NoMetadata, NullMetadata}
        \cup {Metadata(t, u) : t \in MetadataIds, u \in MetadataIds}

\* The identities the endpoint is exercised with.
Customers ==
    {NoCustomer, Customer(VNull), Customer(VInt(12345)),
     Customer(VStr(<<"1", "2", "3", "4", "5">>)),
     Customer(VStr(<<"0">>)), Customer(VStr(<<"1", "a">>)),
     Customer(VStr(<<"SUPERSCRIPT_TWO">>))}

Metadatas ==
    {NoMetadata, Metadata(VInt(999), VAbsent),
     Metadata(VStr(<<"a", "b", "c">>), VStr(<<"4", "2">>)),
     Metadata(VStr(<<>>), VStr(<<"4", "2">>))}

\* The body of a request: text that is not JSON, JSON that is not an object
\* (a list), or an object.
NotAnObject(kind) ==
    [body |-> kind, token |-> TAbsent, header |-> TAbsent, event |-> TAbsent,
     sale_id |-> TAbsent, customer |-> NoCustomer, metadata |-> NoMetadata]

Requests ==
    {NotAnObject("malformed"), NotAnObject("list")}
        \cup [body : {"object"},
              token : {TAbsent, TStr(""), TStr("s3cret"), TStr("wrong")},
              header : {TAbsent, TStr("s3cret"), TStr("wrong")},
              event : Events,
              sale_id : {TAbsent, TStr("S1")},
              customer : Customers,
              metadata : Metadatas]

----------------------------------------------------------------------------
(* Notification messages and event handlers *)

\* data.get(key): None when the key is missing or null.
TGet(v) == IF v.k = "absent" THEN TNull ELSE v

\* data.get(key, 'N/A')
TGetOr(v, default) == IF v.k = "absent" THEN TStr(default) ELSE v

Message(kind, user_id, evento, sale_id, text) ==
    [kind |-> kind, user_id |-> user_id, evento |-> evento,
     sale_id |-> sale_id, text |-> text]

\* The messages a handler passes to notificar_admin, in order.
processar_venda_aprovada(user_id, data) ==
    <<Message("NOVA VENDA", user_id, TNull, TGetOr(data.sale_id, "N/A"), "")>>

\* Mutation of processar_assinatura_criada: it notifies and then delegates.
processar_assinatura_criada_Twice(user_id, data) ==
    <<Message("ASSINATURA", user_id, TNull, TGetOr(data.sale_id, "N/A"), "")>>
        \o processar_venda_aprovada(user_id, data)

processar_assinatura_criada(user_id, data) ==
    processar_venda_aprovada(user_id, data)

processar_assinatura_renovada(user_id, data) ==
    <<Message("RENOVACAO", user_id, TNull, TGetOr(data.sale_id, "N/A"), "")>>

processar_assinatura_cancelada(user_id, data) ==
    <<Message("CANCELAMENTO", user_id, TNull, TGetOr(data.sale_id, "N/A"), "")>>

processar_reembolso(user_id, data) ==
    <<Message("REEMBOLSO", user_id, TNull, TGetOr(data.sale_id, "N/A"), "")>>

\* Mutation of HandlersFor: an unknown event is handled as a sale.
HandlersFor_Default(evento) ==
    IF evento = TStr("SUBSCRIPTION_CREATED")
    THEN <<"processar_assinatura_criada", "processar_venda_aprovada">>
    ELSE IF evento = TStr("SUBSCRIPTION_RENEWED")
    THEN <<"processar_assinatura_renovada">>
    ELSE IF evento = TStr("SUBSCRIPTION_CANCELED")
    THEN <<"processar_assinatura_cancelada">>
    ELSE IF evento = TStr("REFUND_REQUESTED")
    THEN <<"processar_reembolso">>
    ELSE <<"processar_venda_aprovada">>

\* The if/elif chain on evento: the handlers it enters, in call order.
HandlersFor(evento) ==
    IF evento = TStr("SALE_APPROVED")
    THEN <<"processar_venda_aprovada">>
    ELSE IF evento = TStr("SUBSCRIPTION_CREATED")
    THEN <<"processar_assinatura_criada", "processar_venda_aprovada">>
    ELSE IF evento = TStr("SUBSCRIPTION_RENEWED")
    THEN <<"processar_assinatura_renovada">>
    ELSE IF evento = TStr("SUBSCRIPTION_CANCELED")
    THEN <<"processar_assinatura_cancelada">>
    ELSE IF evento = TStr("REFUND_REQUESTED")
    THEN <<"processar_reembolso">>
    ELSE <<>>

\* The messages the entered handler sends.
HandlerMessages(evento, user_id, data) ==
    LET hs == HandlersFor(evento)
    IN  IF hs = <<>> THEN <<>>
        ELSE IF hs[1] = "processar_venda_aprovada"
        THEN processar_venda_aprovada(user_id, data)
        ELSE IF hs[1] = "processar_assinatura_criada"
        THEN processar_assinatura_criada(user_id, data)
        ELSE IF hs[1] = "processar_assinatura_renovada"
        THEN processar_assinatura_renovada(user_id, data)
        ELSE IF hs[1] = "processar_assinatura_cancelada"
        THEN processar_assinatura_cancelada(user_id, data)
        ELSE processar_reembolso(user_id, data)

\* The alert of a webhook without user id: it names the event and the sale.
NoUserIdAlert(data) ==
    Message("Webhook sem user_id", 0, TGet(data.event), TGet(data.sale_id), "")

\* The alert of the top-level except: it carries str(e).
ErrorAlert(e) == Message("Erro no webhook", 0, TNull, TNull, e.text)

----------------------------------------------------------------------------
(* notificar_admin *)

\* Mutation of NotifierConfigured: only the credential is checked.
NotifierConfigured_BotOnly == TTruthy(BOT_TOKEN)

\* if not BOT_TOKEN or not ADMIN_CHAT_ID: return
NotifierConfigured == TTruthy(BOT_TOKEN) /\ TTruthy(ADMIN_CHAT_ID)

\* What the outbound POST can do: answer 200, answer another status, or fail
\* in transport.
PostOutcomes == {"200", "non200", "transport_error"}

ClientError == [type |-> "ClientError", text |-> "Cannot connect to host"]

\* Mutation of NotifierRaises: a transport error reaches the caller.
NotifierRaises_Transport(outcome) == outcome = "transport_error"

\* try: ... except Exception as e: logger.error(...): nothing is re-raised.
NotifierRaises(outcome) == FALSE

----------------------------------------------------------------------------
(* Responses *)

NoField == [k |-> "nofield", t |-> ""]

JSONResponse(status_code, status, message, event) ==
    [status_code |-> status_code, status |-> status, message |-> message,
     event |-> event]

NoResp == JSONResponse(0, "", "", NoField)

SuccessResponse(data) ==
    JSONResponse(200, "success", "Webhook processado", TGet(data.event))

\* Mutation of NotFoundResponse: the missing user id is reported as an error
\* status.
NotFoundResponse_400 == JSONResponse(400, "error", "user_id not found", NoField)

NotFoundResponse == JSONResponse(200, "error", "user_id not found", NoField)

ErrorResponse(e) == JSONResponse(500, "error", e.text, NoField)

\* What the framework answers when an exception leaves the handler: an
\* HTTPException becomes its own status, anything else a bare 500.
FrameworkResponse(e) ==
    IF e.type = "HTTPException"
    THEN JSONResponse(401, "", "Token invalido", NoField)
    ELSE JSONResponse(500, "", "Internal Server Error", NoField)

\* Mutation of CaughtByExcept: only errors of the JSON parse are caught.
CaughtByExcept_ParseOnly(e) == e.type = "JSONDecodeError"

\* except Exception as e: every exception of the model is an Exception,
\* HTTPException included.
CaughtByExcept(e) ==
    e.type \in {"JSONDecodeError", "AttributeError", "ValueError",
                "HTTPException", "ClientError"}

----------------------------------------------------------------------------
(* The endpoint *)

OutcomesOf(ps) == [i \in 1..Len(ps) |-> ps[i].outcome]

\* The delivery ends with response r.
Complete(r, ps) ==
    /\ resp' = r
    /\ responses' = Append(responses, r)
    /\ outcomes' = Append(outcomes, OutcomesOf(ps))
    /\ pc' = "idle"

\* An exception is raised inside the try block.
Raise(e) ==
    /\ pc' = "except"
    /\ exc' = e

\* The provider sends the request (again).
Deliver ==
    /\ pc = "idle"
    /\ Len(responses) < MaxDeliveries
    /\ pc' = "parse"
    /\ validated' = "pending"
    /\ result' = NotRun
    /\ exc' = NoExc
    /\ handlers' = <<>>
    /\ pending' = <<>>
    /\ after' = ""
    /\ alerts' = <<>>
    /\ posts' = <<>>
    /\ resp' = NoResp
    /\ UNCHANGED <<cfg, req, responses, outcomes>>

\* data = await request.json(); data.get('event', 'UNKNOWN')
ParseJson ==
    /\ pc = "parse"
    /\ IF req.body = "malformed" THEN Raise(JSONDecodeError)
       ELSE IF req.body = "list" THEN Raise(AttributeError)
       ELSE pc' = "validate" /\ exc' = exc
    /\ UNCHANGED <<cfg, req, validated, result, handlers, pending, after,
                   alerts, posts, resp, responses, outcomes>>

ValidateToken ==
    /\ pc = "validate"
    /\ IF TokenRejected(req)
       THEN validated' = "rejected" /\ Raise(HTTPException401)
       ELSE validated' = "passed" /\ pc' = "extract" /\ exc' = exc
    /\ UNCHANGED <<cfg, req, result, handlers, pending, after, alerts, posts,
                   resp, responses, outcomes>>

\* user_id_telegram = extract_user_id_from_kirvano_data(data)
\* if not user_id_telegram: await notificar_admin(...)
ExtractUserId ==
    /\ pc = "extract"
    /\ LET r == extract_user_id_from_kirvano_data(req)
       IN  /\ result' = r
           /\ IF r.k = "raise"
              THEN Raise(r.exc) /\ UNCHANGED <<pending, after>>
              ELSE IF UserIdMissing(r)
              THEN /\ pending' = <<NoUserIdAlert(req)>>
                   /\ after' = "respond_notfound"
                   /\ pc' = "notify"
                   /\ exc' = exc
              ELSE pc' = "dispatch" /\ UNCHANGED <<pending, after, exc>>
    /\ UNCHANGED <<cfg, req, validated, handlers, alerts, posts, resp,
                   responses, outcomes>>

\* if evento == "SALE_APPROVED": ... else: logger.warning(...)
Dispatch ==
    /\ pc = "dispatch"
    /\ handlers' = HandlersFor(TGet(req.event))
    /\ pending' = HandlerMessages(TGet(req.event), result.n, req)
    /\ after' = "respond_ok"
    /\ pc' = IF pending' = <<>> THEN "respond_ok" ELSE "notify"
    /\ UNCHANGED <<cfg, req, validated, result, exc, alerts, posts, resp,
                   responses, outcomes>>

\* notificar_admin without credentials: a warning, no network call.
NotifySkipped ==
    /\ pc = "notify"
    /\ ~NotifierConfigured
    /\ alerts' = Append(alerts, Head(pending))
    /\ pending' = Tail(pending)
    /\ pc' = IF Tail(pending) = <<>> THEN after ELSE "notify"
    /\ UNCHANGED <<cfg, req, validated, result, exc, handlers, after, posts,
                   resp, responses, outcomes>>

\* notificar_admin with credentials: one POST, whose outcome is logged.
NotifyPost ==
    /\ pc = "notify"
    /\ NotifierConfigured
    /\ \E outcome \in PostOutcomes :
        LET sent == Append(posts, [message |-> Head(pending), outcome |-> outcome])
        IN  /\ alerts' = Append(alerts, Head(pending))
            /\ posts' = sent
            /\ IF NotifierRaises(outcome)
               THEN /\ pending' = <<>>
                    /\ IF after = "respond_error"
                       THEN /\ Complete(FrameworkResponse(ClientError), sent)
                            /\ exc' = ClientError
                       ELSE /\ Raise(ClientError)
                            /\ UNCHANGED <<resp, responses, outcomes>>
               ELSE /\ pending' = Tail(pending)
                    /\ pc' = IF Tail(pending) = <<>> THEN after ELSE "notify"
                    /\ UNCHANGED <<exc, resp, responses, outcomes>>
    /\ UNCHANGED <<cfg, req, validated, result, handlers, after>>

\* except Exception as e: await notificar_admin(f"Erro no webhook: {str(e)}")
TopLevelExcept ==
    /\ pc = "except"
    /\ IF CaughtByExcept(exc)
       THEN /\ pending' = <<ErrorAlert(exc)>>
            /\ after' = "respond_error"
            /\ pc' = "notify"
            /\ UNCHANGED <<resp, responses, outcomes>>
       ELSE /\ Complete(FrameworkResponse(exc), posts)
            /\ UNCHANGED <<pending, after>>
    /\ UNCHANGED <<cfg, req, validated, result, exc, handlers, alerts, posts>>

RespondSuccess ==
    /\ pc = "respond_ok"
    /\ Complete(SuccessResponse(req), posts)
    /\ UNCHANGED <<cfg, req, validated, result, exc, handlers, pending, after,
                   alerts, posts>>

RespondNotFound ==
    /\ pc = "respond_notfound"
    /\ Complete(NotFoundResponse, posts)
    /\ UNCHANGED <<cfg, req, validated, result, exc, handlers, pending, after,
                   alerts, posts>>

RespondError ==
    /\ pc = "respond_error"
    /\ Complete(ErrorResponse(exc), posts)
    /\ UNCHANGED <<cfg, req, validated, result, exc, handlers, pending, after,
                   alerts, posts>>

Init ==
    /\ cfg \in Configurations
    /\ req \in Requests
    /\ pc = "idle"
    /\ validated = "pending"
    /\ result = NotRun
    /\ exc = NoExc
    /\ handlers = <<>>
    /\ pending = <<>>
    /\ after = ""
    /\ alerts = <<>>
    /\ posts = <<>>
    /\ resp = NoResp
    /\ responses = <<>>
    /\ outcomes = <<>>

Next ==
    \/ Deliver
    \/ ParseJson
    \/ ValidateToken
    \/ ExtractUserId
    \/ Dispatch
    \/ NotifySkipped
    \/ NotifyPost
    \/ TopLevelExcept
    \/ RespondSuccess
    \/ RespondNotFound
    \/ RespondError

Spec == Init /\ [][Next]_vars

----------------------------------------------------------------------------
(* Identity extraction alone, over every combination of customer and       *)
(* metadata values: the request has passed the token check and the         *)
(* extractor is applied to it.                                             *)

ExtractInputs ==
    [body : {"object"}, token : {TAbsent}, header : {TAbsent},
     event : {TStr("SALE_APPROVED")}, sale_id : {TStr("S1")},
     customer : AllCustomers, metadata : AllMetadata]

InitExtract ==
    /\ cfg = [KIRVANO_TOKEN |-> TAbsent, BOT_TOKEN |-> TAbsent,
              ADMIN_CHAT_ID |-> TAbsent]
    /\ req \in ExtractInputs
    /\ pc = "extract"
    /\ validated = "passed"
    /\ result = NotRun
    /\ exc = NoExc
    /\ handlers = <<>>
    /\ pending = <<>>
    /\ after = ""
    /\ alerts = <<>>
    /\ posts = <<>>
    /\ resp = NoResp
    /\ responses = <<>>
    /\ outcomes = <<>>

NextExtract == ExtractUserId

SpecExtract == InitExtract /\ [][NextExtract]_vars

----------------------------------------------------------------------------
(* Vocabulary of the properties *)

\* The last delivery has been answered; the per-delivery variables hold
\* what it did.
Responded == pc = "idle" /\ responses # <<>>

\* The token of the request: the body field, else the header.
TokenOf(r) == IF TTruthy(r.token) THEN r.token ELSE r.header

SecretConfigured == cfg.KIRVANO_TOKEN.k = "str" /\ cfg.KIRVANO_TOKEN.t # ""

TokenSupplied(r) == TTruthy(r.token) \/ TTruthy(r.header)

PhoneOf(r) == IF r.customer.k = "obj" THEN r.customer.phone_number ELSE VAbsent
TelegramIdOf(r) ==
    IF r.metadata.k = "obj" THEN r.metadata.telegram_user_id ELSE VAbsent
UserIdOf(r) == IF r.metadata.k = "obj" THEN r.metadata.user_id ELSE VAbsent

\* A non-empty string of decimal digits.
DigitString(v) ==
    /\ v.k = "str"
    /\ v.s # <<>>
    /\ \A i \in 1..Len(v.s) : v.s[i] \in DecimalDigits

\* Present: the key is there and its value is not null.
Present(v) == v.k \notin {"absent", "null"}

\* Usable: present and neither empty nor zero.
Usable(v) == (v.k = "str" /\ v.s # <<>>) \/ (v.k = "int" /\ v.n # 0)

Coercible(v) == v.k = "int" \/ DigitString(v)

Coerced(v) == IF v.k = "int" THEN v.n ELSE IntOfDigits(v.s)

\* customer and metadata are objects or missing, phone_number a string or
\* missing.
WellTyped(r) ==
    /\ r.customer.k # "null"
    /\ r.metadata.k # "null"
    /\ PhoneOf(r).k \in {"absent", "str"}

EventRecognized(r) == r.event.k = "str" /\ r.event.t \in RecognizedEvents

\* The event as the response and the alerts show it: null when missing.
EventShown(r) == IF r.event.k = "str" THEN r.event ELSE TNull
SaleShown(r) == IF r.sale_id.k = "str" THEN r.sale_id ELSE TNull

\* The extractor gave an id the endpoint goes on with (a Telegram id is
\* positive; the endpoint takes 0 for a missing id).
UserIdResolved == result.k = "id" /\ result.n # 0

----------------------------------------------------------------------------
(* Properties *)

\* C1: a request whose token (body field, else header) differs from a
\* configured non-empty secret is answered 401, with no identity extraction,
\* no event handler and no admin notification attempt.
C1_BadTokenAnswers401 ==
    (/\ Responded
     /\ req.body = "object"
     /\ SecretConfigured
     /\ TokenSupplied(req)
     /\ TokenOf(req) # cfg.KIRVANO_TOKEN)
        => /\ resp.status_code = 401
           /\ result = NotRun
           /\ handlers = <<>>
           /\ alerts = <<>>

\* C2: a request passes the token check, and goes on to identity extraction,
\* exactly when no secret is configured, or no token is supplied in body or
\* header, or the token equals the secret; it is rejected exactly when a
\* secret is configured, a token is supplied and the two differ.
C2_TokenCheckCases ==
    validated # "pending" =>
        /\ validated = "passed"
              <=> \/ ~SecretConfigured
                  \/ ~TokenSupplied(req)
                  \/ TokenOf(req) = cfg.KIRVANO_TOKEN
        /\ validated = "rejected"
              <=> /\ SecretConfigured
                  /\ TokenSupplied(req)
                  /\ TokenOf(req) # cfg.KIRVANO_TOKEN
        /\ validated = "passed" => (pc = "extract" \/ result # NotRun)
        /\ validated = "rejected" => result = NotRun

\* A secret is configured, no token came, and the extractor ran.
C2_Witness ==
    /\ validated = "passed"
    /\ SecretConfigured
    /\ ~TokenSupplied(req)
    /\ result.k = "id"


\* C3: the extractor resolves the user id by strict precedence, the first
\* match winning: customer.phone_number when it is a non-empty all-digit
\* string, else metadata.telegram_user_id when present, else
\* metadata.user_id when present, each coerced to an integer; and it returns
\* not-found only when none of the three is present.
C3_PrecedenceByPresence ==
    (result # NotRun /\ WellTyped(req)) =>
        /\ DigitString(PhoneOf(req))
              => result = Returned(Coerced(PhoneOf(req)))
        /\ (/\ ~DigitString(PhoneOf(req))
            /\ Present(TelegramIdOf(req))
            /\ Coercible(TelegramIdOf(req)))
              => result = Returned(Coerced(TelegramIdOf(req)))
        /\ (/\ ~DigitString(PhoneOf(req))
            /\ ~Present(TelegramIdOf(req))
            /\ Present(UserIdOf(req))
            /\ Coercible(UserIdOf(req)))
              => result = Returned(Coerced(UserIdOf(req)))
        /\ result = ReturnedNone
              => /\ ~DigitString(PhoneOf(req))
                 /\ ~Present(TelegramIdOf(req))
                 /\ ~Present(UserIdOf(req))

\* C3 (amended): the same precedence, where a metadata value counts only
\* when it is usable (present and neither null, empty nor zero): an unusable
\* telegram_user_id gives way to user_id, and not-found is returned exactly
\* when the phone number is not a digit string and neither metadata value is
\* usable.
C3_PrecedenceByUsability ==
    (result # NotRun /\ WellTyped(req)) =>
        /\ DigitString(PhoneOf(req))
              => result = Returned(Coerced(PhoneOf(req)))
        /\ (/\ ~DigitString(PhoneOf(req))
            /\ Usable(TelegramIdOf(req))
            /\ Coercible(TelegramIdOf(req)))
              => result = Returned(Coerced(TelegramIdOf(req)))
        /\ (/\ ~DigitString(PhoneOf(req))
            /\ ~Usable(TelegramIdOf(req))
            /\ Usable(UserIdOf(req))
            /\ Coercible(UserIdOf(req)))
              => result = Returned(Coerced(UserIdOf(req)))
        /\ result = ReturnedNone
              <=> /\ ~DigitString(PhoneOf(req))
                  /\ ~Usable(TelegramIdOf(req))
                  /\ ~Usable(UserIdOf(req))

\* Phone "12345" and telegram_user_id 999 resolve to 12345.
C3_Witness ==
    /\ PhoneOf(req) = VStr(<<"1", "2", "3", "4", "5">>)
    /\ TelegramIdOf(req) = VInt(999)
    /\ result = Returned(12345)

\* C4: a request that passes the token check and yields no user id is
\* answered 200 {status: "error", message: "user_id not found"}, after
\* exactly one admin alert attempt that carries the event and the sale id,
\* and no event handler runs.
C4_NotFoundAnswer ==
    (Responded /\ validated = "passed" /\ result = ReturnedNone) =>
        /\ resp = JSONResponse(200, "error", "user_id not found", NoField)
        /\ Len(alerts) = 1
        /\ alerts[1].kind = "Webhook sem user_id"
        /\ alerts[1].evento = EventShown(req)
        /\ alerts[1].sale_id = SaleShown(req)
        /\ handlers = <<>>

\* A sale without any identity field was answered "user_id not found".
C4_Witness ==
    /\ Responded
    /\ result = ReturnedNone
    /\ req.event = TStr("SALE_APPROVED")
    /\ req.sale_id = TStr("S1")
    /\ resp.message = "user_id not found"

C6_ResponseIgnoresNotification ==
    \A i, j \in 1..Len(responses) : responses[i] = responses[j]

\* Two deliveries were answered, one whose POST got 200 and one whose POST
\* failed in transport.
C6_Witness ==
    /\ Len(responses) = 2
    /\ outcomes[1] = <<"200">>
    /\ outcomes[2] = <<"transport_error">>

\* C7: an exception raised by any step of the handling is caught at the top
\* level: the answer is 500 {status: "error", message: the exception text},
\* after exactly one admin alert attempt that carries the exception text;
\* the exception does not leave the handler.
C7_ExceptionAnswers500 ==
    (Responded /\ exc # NoExc) =>
        /\ resp = JSONResponse(500, "error", exc.text, NoField)
        /\ Len(alerts) = 1
        /\ alerts[1].kind = "Erro no webhook"
        /\ alerts[1].text = exc.text

\* A body that is not JSON was answered 500.
C7_Witness ==
    /\ Responded
    /\ req.body = "malformed"
    /\ exc = JSONDecodeError
    /\ resp.status_code = 500

\* C8: notificar_admin never raises to its caller: without BOT_TOKEN or
\* without ADMIN_CHAT_ID it makes no network call, and with both a response
\* other than 200 or a transport error is swallowed, the caller going on to
\* its own response.
C8_NotifierNeverRaises ==
    /\ (cfg.BOT_TOKEN.k # "str" \/ cfg.ADMIN_CHAT_ID.k # "str") => posts = <<>>
    /\ exc # ClientError
    /\ (pc = "except" \/ pc = "idle") => pending = <<>>
    /\ (Responded /\ alerts # <<>>)
          => resp.status_code = (CASE after = "respond_ok" -> 200
                                   [] after = "respond_notfound" -> 200
                                   [] after = "respond_error" -> 500)

\* A notification failed in transport and the request was answered.
C8_Witness ==
    /\ Responded
    /\ Len(posts) = 1
    /\ posts[1].outcome = "transport_error"
    /\ resp.status = "success"

\* C9: a phone_number that is not a digit-only string falls through
\* silently to the metadata lookups, whereas a present telegram_user_id or
\* user_id that cannot be coerced to an integer is an error (the request
\* ends in the 500 answer), never not-found and never a fall-through to the
\* next field.
C9_AsymmetryByPresence ==
    (result # NotRun /\ req.customer.k # "null" /\ req.metadata.k # "null") =>
        /\ (Present(PhoneOf(req)) /\ ~DigitString(PhoneOf(req)))
              => result.exc # AttributeError
        /\ (/\ PhoneOf(req).k \in {"absent", "str"}
            /\ ~DigitString(PhoneOf(req))
            /\ Present(TelegramIdOf(req))
            /\ ~Coercible(TelegramIdOf(req)))
              => /\ result.k = "raise"
                 /\ Responded => resp.status_code = 500
        /\ (/\ PhoneOf(req).k \in {"absent", "str"}
            /\ ~DigitString(PhoneOf(req))
            /\ ~Present(TelegramIdOf(req))
            /\ Present(UserIdOf(req))
            /\ ~Coercible(UserIdOf(req)))
              => /\ result.k = "raise"
                 /\ Responded => resp.status_code = 500

\* C9 (amended): a phone_number that is a string but not a digit-only one
\* (or whose digits int() refuses) falls through silently to the metadata
\* lookups, while a phone_number that is not a string (a number, null) is an
\* error; the first usable metadata value (telegram_user_id, else user_id;
\* null, empty and zero are skipped) is an error when it cannot be coerced
\* to an integer, never not-found and never a fall-through; every such error
\* ends in the 500 answer.
C9_AsymmetryByUsability ==
    (result # NotRun /\ req.customer.k # "null" /\ req.metadata.k # "null") =>
        LET first == IF Usable(TelegramIdOf(req)) THEN TelegramIdOf(req)
                     ELSE UserIdOf(req)
        IN  /\ (PhoneOf(req).k = "str" /\ ~DigitString(PhoneOf(req)))
                  => /\ result.exc # AttributeError
                     /\ result = (IF ~Usable(first) THEN ReturnedNone
                                  ELSE IF Coercible(first)
                                  THEN Returned(Coerced(first))
                                  ELSE Raised(ValueError))
            /\ PhoneOf(req).k \in {"int", "null"}
                  => result = Raised(AttributeError)
            /\ (/\ PhoneOf(req).k \in {"absent", "str"}
                /\ ~DigitString(PhoneOf(req))
                /\ Usable(first)
                /\ ~Coercible(first))
                  => result = Raised(ValueError)
            /\ (result.k = "raise" /\ Responded)
                  => resp = JSONResponse(500, "error", result.exc.text, NoField)

\* Phone "1a" fell through, telegram_user_id "abc" raised, the answer is 500.
C9_Witness ==
    /\ Responded
    /\ PhoneOf(req) = VStr(<<"1", "a">>)
    /\ TelegramIdOf(req) = VStr(<<"a", "b", "c">>)
    /\ result = Raised(ValueError)
    /\ resp.status_code = 500

\* C10: a request causes at most one outbound notification attempt before
\* its response, on every path and with no retry, and exactly one when it
\* passes the token check, resolves a user id and carries a recognized
\* event.
C10_AtMostOneNotification ==
    /\ Len(alerts) + Len(pending) <= 1
    /\ Len(posts) <= Len(alerts)
    /\ (/\ Responded
        /\ validated = "passed"
        /\ UserIdResolved
        /\ EventRecognized(req))
          => /\ Len(alerts) = 1
             /\ (cfg.BOT_TOKEN.k = "str" /\ cfg.ADMIN_CHAT_ID.k = "str")
                   => Len(posts) = 1

\* A created subscription was answered after one POST.
C10_Witness ==
    /\ Responded
    /\ req.event = TStr("SUBSCRIPTION_CREATED")
    /\ handlers = <<"processar_assinatura_criada", "processar_venda_aprovada">>
    /\ Len(posts) = 1
    /\ resp.status = "success"

====
